---- MODULE Spec2Model ----
(***************************************************************************)
(* OperationFolder (lib/Transforms/Utils/FoldUtils.cpp, FoldUtils.h): the  *)
(* operation folding and constant uniquing engine of one function.         *)
(*                                                                         *)
(* The IR graph is an arena of operations addressed by identifiers.  An    *)
(* operation has operands (values), result types, a commutativity flag     *)
(* and, when it is a ConstantOp, a value attribute.  A value is a result   *)
(* of an operation or the entry block argument.  Use lists are not stored: *)
(* the uses of a value are the operand slots of live operations that hold  *)
(* it.  The function body is a list of two blocks, the entry block first.  *)
(***************************************************************************)
EXTENDS Integers, Sequences, FiniteSets, TLC

VARIABLES ops, blocks, uniquedConstants, last, built, registered

vars == <<ops, blocks, uniquedConstants, last, built, registered>>

\* Size of the operation arena: initial operations plus those folding creates.
MaxOps == 6

\* How many operations a driver builds with folder.create.
MaxBuilt == 1

\* OperationFolder::function, the function this folder manages, and another
\* function of the module.
function == "f"

otherFunction == "g"

\* The null Operation* (an empty DenseMap slot, `if (!constInst)`).
NullOp == 0

\* The null Attribute(), the "absent" entry of operandConstants.
NullAttr == "null"

OpIds == 1..MaxOps
Types == {"i32", "i64"}
Attrs == {"four", "five"}

\* Keys of uniquedConstants: std::pair<Attribute, Type>.
Keys == [value : Attrs, type : Types]

Result(op, i) == [def |-> op, idx |-> i]

\* The argument of the entry block: a value no operation defines.
BlockArg == [def |-> NullOp, idx |-> 1]

ConstantOp(v, t) ==
    [status |-> "live", isConst |-> TRUE, commutative |-> FALSE,
     operands |-> <<>>, resTypes |-> <<t>>, value |-> v, func |-> function]

GenericOp(comm, operands, resTypes) ==
    [status |-> "live", isConst |-> FALSE, commutative |-> comm,
     operands |-> operands, resTypes |-> resTypes, value |-> NullAttr,
     func |-> function]

Unborn ==
    [status |-> "unborn", isConst |-> FALSE, commutative |-> FALSE,
     operands |-> <<>>, resTypes |-> <<>>, value |-> NullAttr,
     func |-> function]

(***************************************************************************)
(* Graph queries.  `st` is a record [ops, blocks, uniq]: the graph and the *)
(* folder's map.                                                           *)
(***************************************************************************)
LiveOps(o) == {op \in OpIds : o[op].status = "live"}

\* The uses of value v: the operand slots <<user, slot>> that hold it.
Uses(o, v) ==
    UNION {{<<u, s>> : s \in {t \in DOMAIN o[u].operands : o[u].operands[t] = v}}
           : u \in LiveOps(o)}

\* The results of operation op, as values.
ResultsIn(o, op) == {Result(op, i) : i \in DOMAIN o[op].resTypes}

\* The operations of a block.
OpsOf(blk) == {blk[i] : i \in DOMAIN blk}

\* Operation::use_empty: no result of op has a use.
use_empty(o, op) ==
    \A i \in DOMAIN o[op].resTypes : Uses(o, Result(op, i)) = {}

\* Index of op in sequence s, 0 when absent.
IndexIn(s, op) ==
    IF \E i \in DOMAIN s : s[i] = op
    THEN CHOOSE i \in DOMAIN s : s[i] = op
    ELSE 0

\* <<block, index>> of op, <<0, 0>> when op is in no block.
Position(b, op) ==
    IF \E k \in DOMAIN b : IndexIn(b[k], op) # 0
    THEN LET k == CHOOSE j \in DOMAIN b : IndexIn(b[j], op) # 0
         IN <<k, IndexIn(b[k], op)>>
    ELSE <<0, 0>>

InGraph(b, op) == Position(b, op) # <<0, 0>>

Remove(s, op) == SelectSeq(s, LAMBDA x : x # op)

InsertAt(s, i, op) == SubSeq(s, 1, i - 1) \o <<op>> \o SubSeq(s, i, Len(s))

\* matchPattern(op, m_Constant(&attr)): the value of a constant operation,
\* the null attribute for any other operation.
MatchConstantOp(o, op) ==
    IF op # NullOp /\ o[op].status = "live" /\ o[op].isConst
    THEN o[op].value
    ELSE NullAttr

\* matchPattern(value, m_Constant(&attr)): through the defining operation;
\* a block argument has none.
MatchConstant(o, v) == MatchConstantOp(o, v.def)

\* Mutant: the key ignores the result type.
KeyOf_typeless(o, op) == [value |-> o[op].value, type |-> "i32"]

\* The key of a constant operation: (value, getResult(0)->getType()).
KeyOf(o, op) == [value |-> o[op].value, type |-> o[op].resTypes[1]]

\* Mutant: the assertion is missing.
belongsToFunction_unchecked(o, op) == TRUE

\* The condition of assert(op->getFunction() == function && "...").
belongsToFunction(o, op) == o[op].func = function

(***************************************************************************)
(* Graph mutation primitives.                                              *)
(***************************************************************************)
\* Value::replaceAllUsesWith: every operand slot holding `from` holds `to`.
replaceAllUsesWith(st, from, to) ==
    [st EXCEPT !.ops =
        [u \in OpIds |->
            [st.ops[u] EXCEPT !.operands =
                [s \in DOMAIN st.ops[u].operands |->
                    IF st.ops[u].operands[s] = from THEN to
                    ELSE st.ops[u].operands[s]]]]]

\* Operation::erase: unlink from its block, drop the operands, destroy.
erase(st, op) ==
    [st EXCEPT !.ops[op] = [@ EXCEPT !.status = "erased", !.operands = <<>>],
               !.blocks = [k \in DOMAIN st.blocks |-> Remove(st.blocks[k], op)]]

\* Mutant: the constant is registered but left where it is.
moveConstantToEntryBlock_stay(st, op) == st

\* Mutant: the constant is put behind the first operation of the entry block.
moveConstantToEntryBlock_second(st, op) ==
    LET unlinked == [k \in DOMAIN st.blocks |-> Remove(st.blocks[k], op)]
    IN IF unlinked[1] = <<>>
       THEN [st EXCEPT !.blocks = [unlinked EXCEPT ![1] = <<op>>]]
       ELSE [st EXCEPT !.blocks =
                [unlinked EXCEPT ![1] = InsertAt(unlinked[1], 2, op)]]

\* Operation::moveBefore(&entryBB, entryBB.begin()) on function->front().
moveConstantToEntryBlock(st, op) ==
    LET unlinked == [k \in DOMAIN st.blocks |-> Remove(st.blocks[k], op)]
    IN [st EXCEPT !.blocks = [unlinked EXCEPT ![1] = <<op>> \o unlinked[1]]]

(***************************************************************************)
(* uniquedConstants: DenseMap<std::pair<Attribute, Type>, Operation *>,    *)
(* a function whose domain is the set of keys that have an entry.          *)
(***************************************************************************)
\* DenseMap::operator[]: a key without an entry gets one holding null.
subscript(st, k) ==
    IF k \in DOMAIN st.uniq THEN st
    ELSE [st EXCEPT !.uniq = [j \in DOMAIN st.uniq \cup {k} |->
                                IF j = k THEN NullOp ELSE st.uniq[j]]]

\* Mutant: the slot is set to null and the entry stays.
eraseEntry_nullify(st, k) == [st EXCEPT !.uniq[k] = NullOp]

\* DenseMap::erase(it).
eraseEntry(st, k) ==
    [st EXCEPT !.uniq = [j \in DOMAIN st.uniq \ {k} |-> st.uniq[j]]]

\* DenseMap::find: the operation stored under k, null when there is no entry.
Lookup(u, k) == IF k \in DOMAIN u THEN u[k] ELSE NullOp

\* Mutant: the bookkeeping is not updated.
notifyRemoval_noop(st, op) == st

\* Mutant: the entry of the key is removed whatever it maps to.
notifyRemoval_anyEntry(st, op) ==
    IF MatchConstantOp(st.ops, op) = NullAttr THEN st
    ELSE IF KeyOf(st.ops, op) \in DOMAIN st.uniq
         THEN eraseEntry(st, KeyOf(st.ops, op))
         ELSE st

(***************************************************************************)
(* OperationFolder::notifyRemoval.                                         *)
(***************************************************************************)
\* Mutant: the operation is erased along with its entry.
notifyRemoval_erasing(st, op) ==
    IF MatchConstantOp(st.ops, op) = NullAttr THEN st
    ELSE LET k == KeyOf(st.ops, op)
         IN IF k \in DOMAIN st.uniq /\ st.uniq[k] = op
            THEN erase(eraseEntry(st, k), op)
            ELSE st

notifyRemoval(st, op) ==
    IF MatchConstantOp(st.ops, op) = NullAttr THEN st
    ELSE LET k == KeyOf(st.ops, op)
         IN IF k \in DOMAIN st.uniq /\ st.uniq[k] = op
            THEN eraseEntry(st, k)
            ELSE st

\* Mutant: constInst is a copy of the slot, not a reference to it, so the
\* first-seen constant is hoisted but never registered.
tryToUnify_noRegister(st, op) ==
    LET k == KeyOf(st.ops, op)
        s1 == subscript(st, k)
        constInst == s1.uniq[k]
    IN IF constInst # NullOp
       THEN IF constInst = op
            THEN [st |-> s1, ret |-> "failure"]
            ELSE [st |-> erase(replaceAllUsesWith(s1, Result(op, 1),
                                                  Result(constInst, 1)), op),
                  ret |-> "success"]
       ELSE [st |-> moveConstantToEntryBlock(s1, op), ret |-> "failure"]

\* Mutant: the uses of the duplicate are rewired but it is not erased.
tryToUnify_noErase(st, op) ==
    LET k == KeyOf(st.ops, op)
        s1 == subscript(st, k)
        constInst == s1.uniq[k]
    IN IF constInst # NullOp
       THEN IF constInst = op
            THEN [st |-> s1, ret |-> "failure"]
            ELSE [st |-> replaceAllUsesWith(s1, Result(op, 1),
                                            Result(constInst, 1)),
                  ret |-> "success"]
       ELSE [st |-> moveConstantToEntryBlock([s1 EXCEPT !.uniq[k] = op], op),
             ret |-> "failure"]

\* Mutant: the uniqued constant is hoisted again whenever it is seen.
tryToUnify_rehoist(st, op) ==
    LET k == KeyOf(st.ops, op)
        s1 == subscript(st, k)
        constInst == s1.uniq[k]
    IN IF constInst # NullOp /\ constInst # op
       THEN [st |-> erase(replaceAllUsesWith(s1, Result(op, 1),
                                             Result(constInst, 1)), op),
             ret |-> "success"]
       ELSE [st |-> moveConstantToEntryBlock([s1 EXCEPT !.uniq[k] = op], op),
             ret |-> "failure"]

(***************************************************************************)
(* OperationFolder::tryToUnify.                                            *)
(***************************************************************************)
\* Mutant: the duplicate is erased while its result still has uses.
tryToUnify_eraseOnly(st, op) ==
    LET k == KeyOf(st.ops, op)
        s1 == subscript(st, k)
        constInst == s1.uniq[k]
    IN IF constInst # NullOp
       THEN IF constInst = op
            THEN [st |-> s1, ret |-> "failure"]
            ELSE [st |-> [s1 EXCEPT !.ops[op].status = "erased",
                                    !.blocks = [b \in DOMAIN s1.blocks |->
                                                  Remove(s1.blocks[b], op)]],
                  ret |-> "success"]
       ELSE [st |-> moveConstantToEntryBlock([s1 EXCEPT !.uniq[k] = op], op),
             ret |-> "failure"]

tryToUnify(st, op) ==
    LET k == KeyOf(st.ops, op)
        s1 == subscript(st, k)
        constInst == s1.uniq[k]
    IN IF constInst # NullOp
       THEN IF constInst = op
            THEN [st |-> s1, ret |-> "failure"]
            ELSE [st |-> erase(replaceAllUsesWith(s1, Result(op, 1),
                                                  Result(constInst, 1)), op),
                  ret |-> "success"]
       ELSE [st |-> moveConstantToEntryBlock([s1 EXCEPT !.uniq[k] = op], op),
             ret |-> "failure"]

(***************************************************************************)
(* The private overload tryToFold(op, results).                            *)
(***************************************************************************)
\* operandConstants after the matchPattern loop.
operandConstantsOf(o, op) ==
    [i \in DOMAIN o[op].operands |-> MatchConstant(o, o[op].operands[i])]

\* Mutant: the swap does not ask that the second operand is not constant.
isCommutativeSwap_anyRight(o, op, oc) ==
    Len(oc) = 2 /\ oc[1] # NullAttr /\ o[op].commutative

\* Mutant: the swap does not ask that the operation is commutative.
isCommutativeSwap_anyKind(o, op, oc) ==
    Len(oc) = 2 /\ oc[1] # NullAttr /\ oc[2] = NullAttr

\* The condition of the commutative swap.
isCommutativeSwap(o, op, oc) ==
    Len(oc) = 2 /\ oc[1] # NullAttr /\ oc[2] = NullAttr /\ o[op].commutative

\* Mutant: a swap without a temporary; both slots end up holding the second.
swapOperands_overwrite(st, op) ==
    [st EXCEPT !.ops[op].operands = <<@[2], @[2]>>]

\* std::swap(op->getOpOperand(0), op->getOpOperand(1)).
swapOperands(st, op) ==
    [st EXCEPT !.ops[op].operands = <<@[2], @[1]>>]

\* Mutant: the operands are exchanged, their constants are not.
swapConstants_forgotten(oc) == oc

\* std::swap(operandConstants[0], operandConstants[1]).
swapConstants(oc) == <<oc[2], oc[1]>>

\* The operations not yet created; builder.create takes the least.
UnbornOps(o) == {id \in OpIds : o[id].status = "unborn"}

FreshId(o) == CHOOSE id \in UnbornOps(o) : \A j \in UnbornOps(o) : id <= j

\* Mutant: the constant is built as an i64 whatever type is asked for.
createConstantOp_wide(st, op, id, type, attr) ==
    LET p == Position(st.blocks, op)
    IN [st EXCEPT !.ops[id] = ConstantOp(attr, "i64"),
                  !.blocks[p[1]] = InsertAt(@, p[2], id)]

\* OpBuilder builder(op); builder.create<ConstantOp>(loc, type, attr): a new
\* constant operation inserted before op.
createConstantOp(st, op, id, type, attr) ==
    LET p == Position(st.blocks, op)
    IN [st EXCEPT !.ops[id] = ConstantOp(attr, type),
                  !.blocks[p[1]] = InsertAt(@, p[2], id)]

\* Mutant: a constant is created without looking for a uniqued one.
materialize_noLookup(acc, op, i, attrRepl) ==
    LET k == [value |-> attrRepl, type |-> acc.st.ops[op].resTypes[i]]
        s1 == subscript(acc.st, k)
    IN IF UnbornOps(s1.ops) = {}
       THEN [acc EXCEPT !.overflow = TRUE]
       ELSE LET id == FreshId(s1.ops)
                s2 == createConstantOp(s1, op, id, k.type, attrRepl)
                s3 == moveConstantToEntryBlock([s2 EXCEPT !.uniq[k] = id], id)
            IN [acc EXCEPT !.st = s3,
                           !.results = Append(@, Result(id, 1)),
                           !.created = @ \cup {id}]

\* Mutant: the new constant is hoisted but not registered.
materialize_unregistered(acc, op, i, attrRepl) ==
    LET k == [value |-> attrRepl, type |-> acc.st.ops[op].resTypes[i]]
        s1 == acc.st
    IN IF Lookup(s1.uniq, k) # NullOp
       THEN [acc EXCEPT !.results = Append(@, Result(s1.uniq[k], 1))]
       ELSE IF UnbornOps(s1.ops) = {}
       THEN [acc EXCEPT !.overflow = TRUE]
       ELSE LET id == FreshId(s1.ops)
                s2 == createConstantOp(s1, op, id, k.type, attrRepl)
                s3 == moveConstantToEntryBlock(s2, id)
            IN [acc EXCEPT !.st = s3,
                           !.results = Append(@, Result(id, 1)),
                           !.created = @ \cup {id}]

\* One round of the result loop for an Attribute outcome: reuse the uniqued
\* constant of (attrRepl, result type) or create, register and hoist one.
\* `acc` is [st, results, created, overflow].
materialize(acc, op, i, attrRepl) ==
    LET k == [value |-> attrRepl, type |-> acc.st.ops[op].resTypes[i]]
        s1 == subscript(acc.st, k)
    IN IF s1.uniq[k] # NullOp
       THEN [acc EXCEPT !.st = s1,
                        !.results = Append(@, Result(s1.uniq[k], 1))]
       ELSE IF UnbornOps(s1.ops) = {}
       THEN [acc EXCEPT !.overflow = TRUE]
       ELSE LET id == FreshId(s1.ops)
                s2 == createConstantOp(s1, op, id, k.type, attrRepl)
                s3 == moveConstantToEntryBlock([s2 EXCEPT !.uniq[k] = id], id)
            IN [acc EXCEPT !.st = s3,
                           !.results = Append(@, Result(id, 1)),
                           !.created = @ \cup {id}]

\* The loop over foldResults.
RECURSIVE processFoldResults(_, _, _, _)
processFoldResults(acc, op, outs, i) ==
    IF i > Len(acc.st.ops[op].resTypes) \/ acc.overflow THEN acc
    ELSE IF outs[i].isValue
    THEN processFoldResults([acc EXCEPT !.results = Append(@, outs[i].val)],
                            op, outs, i + 1)
    ELSE processFoldResults(materialize(acc, op, i, outs[i].attr),
                            op, outs, i + 1)

\* `h` is what op->fold(operandConstants, foldResults) answers:
\* [ok, outs], outs a sequence of [isValue, val, attr].
tryToFoldInto(st, op, h) ==
    LET oc0 == operandConstantsOf(st.ops, op)
        swap == isCommutativeSwap(st.ops, op, oc0)
        s1 == IF swap THEN swapOperands(st, op) ELSE st
        oc == IF swap THEN swapConstants(oc0) ELSE oc0
        hook == [called |-> TRUE, consts |-> oc,
                 operands |-> s1.ops[op].operands, ok |-> h.ok, outs |-> h.outs]
        none == [st |-> s1, results |-> <<>>, created |-> {}, overflow |-> FALSE]
    IN IF ~h.ok
       THEN none @@ [ret |-> "failure", hook |-> hook]
       ELSE IF h.outs = <<>>
       THEN none @@ [ret |-> "success", hook |-> hook]
       ELSE processFoldResults(none, op, h.outs, 1)
            @@ [ret |-> "success", hook |-> hook]

(***************************************************************************)
(* The public overload tryToFold(op, preReplaceAction).                    *)
(***************************************************************************)
NoHook == [called |-> FALSE, consts |-> <<>>, operands |-> <<>>,
           ok |-> FALSE, outs |-> <<>>]

\* preReplaceAction(op): the callback sees the graph as it is when called.
preReplaceAction(st, op) == [op |-> op, ops |-> st.ops, blocks |-> st.blocks]

\* Mutant: every result is replaced by the first replacement.
RECURSIVE replaceResults_first(_, _, _, _)
replaceResults_first(st, op, results, i) ==
    IF i > Len(results) THEN st
    ELSE replaceResults_first(
             replaceAllUsesWith(st, Result(op, i), results[1]),
             op, results, i + 1)

\* for (i...) op->getResult(i)->replaceAllUsesWith(results[i]).
RECURSIVE replaceResults(_, _, _, _)
replaceResults(st, op, results, i) ==
    IF i > Len(results) THEN st
    ELSE replaceResults(replaceAllUsesWith(st, Result(op, i), results[i]),
                        op, results, i + 1)

\* The constant branch.
foldConstant(st, op) ==
    IF use_empty(st.ops, op)
    THEN [st |-> erase(notifyRemoval(st, op), op), ret |-> "success"]
    ELSE tryToUnify(st, op)

\* Mutant: no check for an update in place; the operation is always erased.
replaceAndErase_always(r, op, cb) ==
    [r EXCEPT !.st = erase(replaceResults(r.st, op, r.results, 1), op)]
    @@ [cbLog |-> IF cb THEN <<preReplaceAction(r.st, op)>> ELSE <<>>]

\* Mutant: the callback is called after the uses were replaced.
replaceAndErase_lateCallback(r, op, cb) ==
    LET s1 == IF r.results = <<>> THEN r.st
              ELSE replaceResults(r.st, op, r.results, 1)
        log == IF cb THEN <<preReplaceAction(s1, op)>> ELSE <<>>
    IN IF r.results = <<>>
       THEN r @@ [cbLog |-> log]
       ELSE [r EXCEPT !.st = erase(s1, op)] @@ [cbLog |-> log]

\* Mutant: the producers of the operands that the erasure leaves without
\* uses are erased as well.
replaceAndErase_sweep(r, op, cb) ==
    LET log == IF cb THEN <<preReplaceAction(r.st, op)>> ELSE <<>>
        s1 == erase(replaceResults(r.st, op, r.results, 1), op)
        dead == {d \in LiveOps(s1.ops) :
                    /\ \E i \in DOMAIN r.st.ops[op].operands :
                          r.st.ops[op].operands[i].def = d
                    /\ use_empty(s1.ops, d)}
        s2 == [s1 EXCEPT
                 !.ops = [id \in OpIds |->
                            IF id \in dead
                            THEN [s1.ops[id] EXCEPT !.status = "erased"]
                            ELSE s1.ops[id]],
                 !.blocks = [k \in DOMAIN s1.blocks |->
                               SelectSeq(s1.blocks[k],
                                         LAMBDA x : x \notin dead)]]
    IN IF r.results = <<>>
       THEN r @@ [cbLog |-> log]
       ELSE [r EXCEPT !.st = s2] @@ [cbLog |-> log]

\* What follows a successful fold `r` of the private overload: the callback,
\* then the replacement of the results and the erasure.
replaceAndErase(r, op, cb) ==
    LET log == IF cb THEN <<preReplaceAction(r.st, op)>> ELSE <<>>
    IN IF r.results = <<>>
       THEN r @@ [cbLog |-> log]
       ELSE [r EXCEPT !.st = erase(replaceResults(r.st, op, r.results, 1), op)]
            @@ [cbLog |-> log]

\* The call ended in a failed assertion: the process is aborted, nothing
\* was changed.
Aborted(st) ==
    [st |-> st, ret |-> "assert", results |-> <<>>, created |-> {},
     overflow |-> FALSE, hook |-> NoHook, cbLog |-> <<>>]

\* Mutant: the callback is called when the constant branch succeeds.
tryToFold_callbackOnConstants(st, op, cb, h) ==
    IF ~belongsToFunction(st.ops, op) THEN Aborted(st)
    ELSE IF st.ops[op].isConst
    THEN LET r == foldConstant(st, op)
         IN r @@ [results |-> <<>>, created |-> {}, overflow |-> FALSE,
                  hook |-> NoHook,
                  cbLog |-> IF cb /\ r.ret = "success"
                            THEN <<preReplaceAction(st, op)>> ELSE <<>>]
    ELSE LET r == tryToFoldInto(st, op, h)
         IN IF r.ret = "failure"
            THEN r @@ [cbLog |-> <<>>]
            ELSE replaceAndErase(r, op, cb)

\* tryToFold(op, preReplaceAction); `cb`: a callback is supplied.
tryToFold(st, op, cb, h) ==
    IF ~belongsToFunction(st.ops, op) THEN Aborted(st)
    ELSE IF st.ops[op].isConst
    THEN foldConstant(st, op)
         @@ [results |-> <<>>, created |-> {}, overflow |-> FALSE,
             hook |-> NoHook, cbLog |-> <<>>]
    ELSE LET r == tryToFoldInto(st, op, h)
         IN IF r.ret = "failure"
            THEN r @@ [cbLog |-> <<>>]
            ELSE replaceAndErase(r, op, cb)

(***************************************************************************)
(* OperationFolder::create: build an operation and fold it at once.        *)
(***************************************************************************)
\* builder.create<OpTy>(location, args): the new operation `tmpl` gets the
\* identifier id and is appended to block b, the builder's insertion point.
build(st, id, tmpl, b) ==
    [st EXCEPT !.ops[id] = tmpl, !.blocks[b] = Append(@, id)]

\* op->result_begin() .. op->result_end().
ownResults(o, op) == [i \in DOMAIN o[op].resTypes |-> Result(op, i)]

\* Mutant: the built operation is kept after a successful fold.
create_keep(st, id, tmpl, b, h) ==
    LET r == tryToFoldInto(build(st, id, tmpl, b), id, h)
    IN IF r.ret = "failure"
       THEN [r EXCEPT !.results = ownResults(r.st.ops, id)] @@ [returned |-> NullOp]
       ELSE r @@ [returned |-> NullOp]

\* create(builder, results, location, args), the overload that fills a list
\* of results; it returns nothing.
create(st, id, tmpl, b, h) ==
    LET r == tryToFoldInto(build(st, id, tmpl, b), id, h)
    IN IF r.ret = "failure"
       THEN [r EXCEPT !.results = ownResults(r.st.ops, id)] @@ [returned |-> NullOp]
       ELSE IF Len(r.st.ops[id].resTypes) # 0
       THEN [r EXCEPT !.st = erase(r.st, id)] @@ [returned |-> NullOp]
       ELSE r @@ [returned |-> NullOp]

\* Mutant: the zero-result overload discards the operation after a
\* successful fold and returns null.
createZeroResult_discard(st, id, tmpl, b, h) ==
    LET r == tryToFoldInto(build(st, id, tmpl, b), id, h)
    IN IF r.ret = "failure"
       THEN [r EXCEPT !.results = <<>>] @@ [returned |-> id]
       ELSE [r EXCEPT !.st = erase(r.st, id), !.results = <<>>]
            @@ [returned |-> NullOp]

\* create(builder, location, args) for an operation kind without results:
\* the outcome of the fold and the list `unused` are dropped, the operation
\* is returned.
createZeroResult(st, id, tmpl, b, h) ==
    LET r == tryToFoldInto(build(st, id, tmpl, b), id, h)
    IN [r EXCEPT !.results = <<>>] @@ [returned |-> id]

(***************************************************************************)
(* The function bodies the folder is run on.  Each is valid SSA: every     *)
(* operand is defined earlier in its block or in the entry block.          *)
(***************************************************************************)
\* entry:  %1 = constant 4 : i32        %2 = addi %1, %arg (commutative)
\* block2: %3 = constant 4 : i32        store %3, %2 (no result)
ProgramA ==
    [ops |-> <<ConstantOp("four", "i32"),
               GenericOp(TRUE, <<Result(1, 1), BlockArg>>, <<"i32">>),
               ConstantOp("four", "i32"),
               GenericOp(FALSE, <<Result(3, 1), Result(2, 1)>>, <<>>)>>,
     blocks |-> << <<1, 2>>, <<3, 4>> >>]

\* entry:  %1 = constant 5 : i64        %2 = constant 5 : i32
\*         %3:2 = pair %2, %1 (commutative, two results)
\* block2: use %3#0, %3#1 (no result)
ProgramB ==
    [ops |-> <<ConstantOp("five", "i64"),
               ConstantOp("five", "i32"),
               GenericOp(TRUE, <<Result(2, 1), Result(1, 1)>>, <<"i32", "i32">>),
               GenericOp(FALSE, <<Result(3, 1), Result(3, 2)>>, <<>>)>>,
     blocks |-> << <<1, 2, 3>>, <<4>> >>]

\* entry:  %1 = constant 4 : i64        use %1 (one operand, no result)
\* and, in another function: %3 = constant 4 : i32
ProgramC ==
    [ops |-> <<ConstantOp("four", "i64"),
               GenericOp(TRUE, <<Result(1, 1)>>, <<>>),
               [ConstantOp("four", "i32") EXCEPT !.func = otherFunction]>>,
     blocks |-> << <<1, 2>>, <<>> >>]

Programs == <<ProgramA, ProgramB, ProgramC>>

\* The answers of op->fold for an operation: failure, success in place, or
\* one outcome per result, each an operand of the operation (an existing
\* value) or a constant attribute.
ValueOutcome(v) == [isValue |-> TRUE, val |-> v, attr |-> NullAttr]

AttrOutcome(a) == [isValue |-> FALSE, val |-> BlockArg, attr |-> a]

OutcomesOf(o, op) ==
    {ValueOutcome(o[op].operands[s]) : s \in DOMAIN o[op].operands}
    \cup {AttrOutcome(a) : a \in Attrs}

FoldAnswers(o, op) ==
    IF o[op].isConst THEN {[ok |-> FALSE, outs |-> <<>>]}
    ELSE {[ok |-> FALSE, outs |-> <<>>], [ok |-> TRUE, outs |-> <<>>]}
         \cup {[ok |-> TRUE, outs |-> outs] :
                 outs \in [DOMAIN o[op].resTypes -> OutcomesOf(o, op)] \ {<<>>}}

State == [ops |-> ops, blocks |-> blocks, uniq |-> uniquedConstants]

\* The operations the map refers to.
Registered(u) == {u[k] : k \in DOMAIN u} \ {NullOp}

RECURSIVE appendRegistered(_, _, _)
appendRegistered(log, new, candidates) ==
    IF candidates = <<>> THEN log
    ELSE LET c == Head(candidates)
         IN appendRegistered(
                IF c \in new /\ IndexIn(log, c) = 0 THEN Append(log, c)
                ELSE log,
                new, Tail(candidates))

\* History of the map: the registered operations, in the order they were
\* registered.  A call on op that ends with the map `u` and the list
\* `results` forgets the operations `u` no longer refers to and appends
\* those it registered: op itself (`constInst = op` in tryToUnify) or the
\* constants of the result loop, in loop order.
registrationOrder(log, u, op, results) ==
    LET kept == SelectSeq(log, LAMBDA c : c \in Registered(u))
        new == Registered(u) \ {log[i] : i \in DOMAIN log}
    IN appendRegistered(kept, new,
                        <<op>> \o [i \in DOMAIN results |-> results[i].def])

NoCall ==
    [call |-> "none", op |-> NullOp, cb |-> FALSE, ret |-> "none",
     hook |-> NoHook, results |-> <<>>, created |-> {}, cbLog |-> <<>>]

\* The folder is constructed for the function of program p.
InitProgram(p) ==
    /\ ops = [id \in OpIds |->
                IF id <= Len(Programs[p].ops) THEN Programs[p].ops[id]
                ELSE Unborn]
    /\ blocks = Programs[p].blocks
    /\ uniquedConstants = <<>>
    /\ last = NoCall @@ [pre |-> [ops |-> ops, blocks |-> blocks,
                                   uniq |-> uniquedConstants]]
    /\ built = 0
    /\ registered = <<>>

Init == \E p \in DOMAIN Programs : InitProgram(p)

\* A failed assertion aborts the process: no call follows it.
Running == last.ret # "assert"

\* A driver calls folder.tryToFold(op, preReplaceAction) (cb: a callback is
\* supplied) on a live operation; h is the answer of its fold hook.
TryToFold(op, cb, h) ==
    /\ Running
    /\ ops[op].status = "live"
    /\ LET r == tryToFold(State, op, cb, h)
       IN /\ ~r.overflow
          /\ ops' = r.st.ops
          /\ blocks' = r.st.blocks
          /\ uniquedConstants' = r.st.uniq
          /\ last' = [call |-> "tryToFold", op |-> op, cb |-> cb,
                      ret |-> r.ret, hook |-> r.hook, results |-> r.results,
                      created |-> r.created, cbLog |-> r.cbLog, pre |-> State]
          /\ registered' = registrationOrder(registered, r.st.uniq, op,
                                              r.results)
    /\ UNCHANGED built

\* A driver calls folder.notifyRemoval(op) and keeps the operation.
NotifyRemoval(op) ==
    /\ Running
    /\ ops[op].status = "live"
    /\ LET ok == belongsToFunction(ops, op)
           s1 == IF ok THEN notifyRemoval(State, op) ELSE State
       IN /\ ops' = s1.ops
          /\ blocks' = s1.blocks
          /\ uniquedConstants' = s1.uniq
          /\ last' = [NoCall EXCEPT !.call = "notifyRemoval", !.op = op,
                                    !.ret = IF ok THEN "none" ELSE "assert"]
                     @@ [pre |-> State]
          /\ registered' = registrationOrder(registered, s1.uniq, op, <<>>)
    /\ UNCHANGED built

\* A driver deletes a dead operation itself: notifyRemoval(op); op->erase().
ExternalErase(op) ==
    /\ Running
    /\ ops[op].status = "live"
    /\ use_empty(ops, op)
    /\ LET ok == belongsToFunction(ops, op)
           s1 == IF ok THEN erase(notifyRemoval(State, op), op) ELSE State
       IN /\ ops' = s1.ops
          /\ blocks' = s1.blocks
          /\ uniquedConstants' = s1.uniq
          /\ last' = [NoCall EXCEPT !.call = "externalErase", !.op = op,
                                    !.ret = IF ok THEN "none" ELSE "assert"]
                     @@ [pre |-> State]
          /\ registered' = registrationOrder(registered, s1.uniq, op, <<>>)
    /\ UNCHANGED built

FoldStep ==
    \E op \in OpIds, cb \in BOOLEAN :
        \E h \in FoldAnswers(ops, op) : TryToFold(op, cb, h)

Next ==
    \/ FoldStep
    \/ \E op \in OpIds : NotifyRemoval(op)
    \/ \E op \in OpIds : ExternalErase(op)

Spec == Init /\ [][Next]_vars

\* The values an operation appended to a block may use: the block argument
\* and the results of the operations of the entry block.
AvailableValues ==
    {BlockArg} \cup UNION {ResultsIn(ops, c) : c \in OpsOf(blocks[1])}

\* Value::getType; the block argument is an i32.
TypeOf(o, v) == IF v = BlockArg THEN "i32" ELSE o[v.def].resTypes[v.idx]

\* The operations a driver builds: a commutative binary operation with one
\* result of the type of its first operand, and an operation with one
\* operand and no result.
BinaryTemplates ==
    {GenericOp(TRUE, <<v, BlockArg>>, <<TypeOf(ops, v)>>) :
        v \in AvailableValues}

ZeroResultTemplates ==
    {GenericOp(FALSE, <<v>>, <<>>) : v \in AvailableValues}

\* The record of a create call: op is the operation it built, returned the
\* operation it returned, null for the overload that returns nothing.
CallOfCreate(name, id, r) ==
    [call |-> name, op |-> id, returned |-> r.returned, cb |-> FALSE, ret |-> r.ret, hook |-> r.hook,
     results |-> r.results, created |-> r.created, cbLog |-> <<>>,
     pre |-> State]

\* The builder of the driver inserts at the end of the function body.
InsertionBlock == Len(blocks)

\* A driver calls folder.create<OpTy>(builder, results, loc, args) with the
\* builder at the end of block b.
Create(tmpl, b, h) ==
    /\ Running
    /\ built < MaxBuilt
    /\ UnbornOps(ops) # {}
    /\ LET id == FreshId(ops)
           r == create(State, id, tmpl, b, h)
       IN /\ ~r.overflow
          /\ ops' = r.st.ops
          /\ blocks' = r.st.blocks
          /\ uniquedConstants' = r.st.uniq
          /\ last' = CallOfCreate("create", id, r)
          /\ registered' = registrationOrder(registered, r.st.uniq, id,
                                              r.results)
    /\ built' = built + 1

\* A driver calls folder.create<OpTy>(builder, loc, args) for an operation
\* kind without results.
CreateZeroResult(tmpl, b, h) ==
    /\ Running
    /\ built < MaxBuilt
    /\ UnbornOps(ops) # {}
    /\ LET id == FreshId(ops)
           r == createZeroResult(State, id, tmpl, b, h)
       IN /\ ~r.overflow
          /\ ops' = r.st.ops
          /\ blocks' = r.st.blocks
          /\ uniquedConstants' = r.st.uniq
          /\ last' = CallOfCreate("createZeroResult", id, r)
          /\ registered' = registrationOrder(registered, r.st.uniq, id,
                                              r.results)
    /\ built' = built + 1

\* The hook answers of an operation that is about to be built.
AnswersFor(tmpl) == FoldAnswers([ops EXCEPT ![1] = tmpl], 1)

CreateStep ==
    \E tmpl \in BinaryTemplates \cup ZeroResultTemplates :
        \E h \in AnswersFor(tmpl) : Create(tmpl, InsertionBlock, h)

CreateZeroResultStep ==
    \E tmpl \in ZeroResultTemplates :
        \E h \in AnswersFor(tmpl) : CreateZeroResult(tmpl, InsertionBlock, h)

\* tryToFold(op): no callback is supplied.
FoldQuietStep ==
    \E op \in OpIds :
        \E h \in FoldAnswers(ops, op) : TryToFold(op, FALSE, h)

NextCreate ==
    \/ FoldQuietStep
    \/ \E op \in OpIds : NotifyRemoval(op)
    \/ \E op \in OpIds : ExternalErase(op)
    \/ CreateStep
    \/ CreateZeroResultStep

\* The folder driven by all its calls, on the function of ProgramC.
SpecCreate == InitProgram(3) /\ [][NextCreate]_vars

\* The folder driven by tryToFold calls alone.
NextFold == FoldStep

SpecFold == Init /\ [][NextFold]_vars

(***************************************************************************)
(* Properties.  `last` records the latest call: its operation, whether a   *)
(* callback was supplied, what it returned, what the fold hook was given   *)
(* and answered, the graph each callback invocation saw, and the state     *)
(* before the call (last.pre).                                             *)
(***************************************************************************)
\* The precondition of every call: the operation is one of the function the
\* folder was constructed for.
OwnOp(o, op) == o[op].func = function

FoldCall == last.call = "tryToFold" /\ OwnOp(last.pre.ops, last.op)

GenericFoldCall == FoldCall /\ ~last.pre.ops[last.op].isConst

ConstantFoldCall == FoldCall /\ last.pre.ops[last.op].isConst

\* The results of operation op, as values.
ResultsOf(o, op) == {Result(op, i) : i \in DOMAIN o[op].resTypes}

\* The operations holding value v as an operand.
UsersOf(o, v) == {us[1] : us \in Uses(o, v)}

\* The key a generic fold resolves the i-th outcome under.
OutcomeKey(i) ==
    [value |-> last.hook.outs[i].attr,
     type |-> last.pre.ops[last.op].resTypes[i]]

AttrOutcomes ==
    {i \in DOMAIN last.hook.outs : ~last.hook.outs[i].isValue}

FullReplacement ==
    GenericFoldCall /\ last.ret = "success" /\ last.results # <<>>

\* C1: every operation uniquedConstants refers to is in the entry block, at
\* a position strictly before every operation that uses its result.
C1_Dominance ==
    \A k \in DOMAIN uniquedConstants :
        LET c == uniquedConstants[k]
        IN c # NullOp =>
            /\ Position(blocks, c)[1] = 1
            /\ \A u \in UsersOf(ops, Result(c, 1)) :
                  Position(blocks, u)[1] = 1 =>
                      Position(blocks, c)[2] < Position(blocks, u)[2]

\* C1 witness: a uniqued constant that is not at the very top any more (a
\* later one was hoisted above it) and has a user in the entry block.
C1_Witness ==
    \E k \in DOMAIN uniquedConstants :
        /\ uniquedConstants[k] # NullOp
        /\ Position(blocks, uniquedConstants[k])[2] > 1
        /\ \E u \in UsersOf(ops, Result(uniquedConstants[k], 1)) :
              Position(blocks, u)[1] = 1

\* C2: a computed constant whose key already has an entry resolves to the
\* entry's operation and creates nothing; two outcomes of one call with the
\* same key resolve to the same operation; one operation is created per
\* distinct key without an entry, and afterwards the key maps to the
\* operation the outcome resolved to (which a later call then reuses).
C2_Idempotence ==
    (GenericFoldCall /\ last.ret = "success" /\ last.hook.outs # <<>>) =>
        /\ \A i \in AttrOutcomes :
              /\ Lookup(last.pre.uniq, OutcomeKey(i)) # NullOp =>
                    last.results[i]
                        = Result(Lookup(last.pre.uniq, OutcomeKey(i)), 1)
              /\ Lookup(uniquedConstants, OutcomeKey(i)) = last.results[i].def
              /\ ops[last.results[i].def].status = "live"
              /\ \A j \in AttrOutcomes :
                    OutcomeKey(i) = OutcomeKey(j) =>
                        last.results[i] = last.results[j]
        /\ Cardinality(last.created)
             = Cardinality({OutcomeKey(i) : i \in
                  {j \in AttrOutcomes :
                      Lookup(last.pre.uniq, OutcomeKey(j)) = NullOp}})

\* C2 witness: one call folds two results to the same constant, whose key
\* an earlier call had registered; nothing is created.
C2_Witness ==
    /\ GenericFoldCall /\ last.ret = "success"
    /\ Cardinality(AttrOutcomes) = 2
    /\ \A i, j \in AttrOutcomes : OutcomeKey(i) = OutcomeKey(j)
    /\ \A i \in AttrOutcomes : Lookup(last.pre.uniq, OutcomeKey(i)) # NullOp
    /\ last.created = {}

\* C3: every uniquedConstants entry maps to a live operation; after an
\* external erasure (notifyRemoval, then erase) the key of the erased
\* constant has no entry or maps to another, live operation.
C3_NoDangling ==
    /\ \A k \in DOMAIN uniquedConstants :
          uniquedConstants[k] # NullOp =>
              ops[uniquedConstants[k]].status = "live"
    /\ (/\ last.call = "externalErase"
        /\ OwnOp(last.pre.ops, last.op)
        /\ last.pre.ops[last.op].isConst) =>
          LET c == Lookup(uniquedConstants, KeyOf(last.pre.ops, last.op))
          IN c = NullOp \/ (c # last.op /\ ops[c].status = "live")

\* C3 witness: the externally erased constant was the uniqued one.
C3_Witness ==
    /\ last.call = "externalErase"
    /\ OwnOp(last.pre.ops, last.op)
    /\ last.pre.ops[last.op].isConst
    /\ Lookup(last.pre.uniq, KeyOf(last.pre.ops, last.op)) = last.op
    /\ ops[last.op].status = "erased"

\* C4: after a full replacement every operand slot that held result i of op
\* holds replacement i, and op is gone from the graph.
C4_FullReplacement ==
    FullReplacement =>
        /\ Len(last.results) = Len(last.pre.ops[last.op].resTypes)
        /\ \A i \in DOMAIN last.results :
              \A us \in Uses(last.pre.ops, Result(last.op, i)) :
                  ops[us[1]].operands[us[2]] = last.results[i]
        /\ ops[last.op].status = "erased"
        /\ ~InGraph(blocks, last.op)

\* C4 witness: a replaced operation with two results, both used, resolved to
\* different replacements.
C4_Witness ==
    /\ FullReplacement
    /\ Len(last.results) = 2
    /\ last.results[1] # last.results[2]
    /\ \A i \in DOMAIN last.results :
          Uses(last.pre.ops, Result(last.op, i)) # {}

\* C5: when the fold hook succeeds with no outcome, tryToFold returns
\* success, op stays where it is, no use of its results is rewired, and no
\* operation is created or erased.
C5_InPlace ==
    (GenericFoldCall /\ last.hook.ok /\ last.hook.outs = <<>>) =>
        /\ last.ret = "success"
        /\ ops[last.op].status = "live"
        /\ blocks = last.pre.blocks
        /\ \A id \in OpIds : ops[id].status = last.pre.ops[id].status
        /\ \A id \in OpIds \ {last.op} : ops[id] = last.pre.ops[id]
        /\ uniquedConstants = last.pre.uniq

\* C5 witness: an in-place fold of an operation whose result has a use.
C5_Witness ==
    /\ GenericFoldCall /\ last.hook.ok /\ last.hook.outs = <<>>
    /\ \E v \in ResultsOf(ops, last.op) : Uses(ops, v) # {}

\* The condition of C6 on the operation as it was before the call.
ConstantOnLeftOnly ==
    /\ GenericFoldCall
    /\ Len(last.pre.ops[last.op].operands) = 2
    /\ last.pre.ops[last.op].commutative
    /\ MatchConstant(last.pre.ops, last.pre.ops[last.op].operands[1]) # NullAttr
    /\ MatchConstant(last.pre.ops, last.pre.ops[last.op].operands[2]) = NullAttr

\* C6: for a commutative two-operand operation whose first operand only is
\* constant, the fold hook sees [absent, constant] and the operands
\* exchanged.
C6_Commutative ==
    ConstantOnLeftOnly =>
        /\ last.hook.called
        /\ last.hook.consts =
              <<NullAttr,
                MatchConstant(last.pre.ops, last.pre.ops[last.op].operands[1])>>
        /\ last.hook.operands =
              <<last.pre.ops[last.op].operands[2],
                last.pre.ops[last.op].operands[1]>>

C6_Witness == ConstantOnLeftOnly /\ last.hook.called

FailedFold == FoldCall /\ last.ret = "failure"

\* A constant with uses whose key has no entry: it becomes the uniqued one.
FirstSighting ==
    /\ ConstantFoldCall
    /\ ~use_empty(last.pre.ops, last.op)
    /\ Lookup(last.pre.uniq, KeyOf(last.pre.ops, last.op)) = NullOp

\* The blocks with op moved to position 0 of the entry block.
Hoisted(b, op) ==
    [k \in DOMAIN b |->
        IF k = 1 THEN <<op>> \o Remove(b[k], op) ELSE Remove(b[k], op)]

\* C7 as claimed: a call that returns failure leaves the graph as it was.
C7_NoMutationOnFailure ==
    FailedFold => (ops = last.pre.ops /\ blocks = last.pre.blocks)

\* C7 amended: a call that returns failure creates and erases nothing and
\* leaves every other operation as it was; the graph changes in two cases
\* only: a constant seen for the first time is moved to position 0 of the
\* entry block, and a commutative two-operand operation whose first operand
\* only is constant has its two operands exchanged.
C7_FailureFrame ==
    FailedFold =>
        /\ \A id \in OpIds \ {last.op} : ops[id] = last.pre.ops[id]
        /\ ops[last.op] =
              IF ConstantOnLeftOnly
              THEN [last.pre.ops[last.op] EXCEPT !.operands = <<@[2], @[1]>>]
              ELSE last.pre.ops[last.op]
        /\ blocks =
              IF FirstSighting THEN Hoisted(last.pre.blocks, last.op)
              ELSE last.pre.blocks

\* C7 witness: a failed fold after which the operands are exchanged.
C7_Witness ==
    /\ FailedFold
    /\ ConstantOnLeftOnly
    /\ ops[last.op].operands # last.pre.ops[last.op].operands

\* What the callback invocation n saw: op in the graph, every use of its
\* results as before the call.
SawOriginal(n) ==
    /\ last.cbLog[n].op = last.op
    /\ last.cbLog[n].ops[last.op].status = "live"
    /\ InGraph(last.cbLog[n].blocks, last.op)
    /\ \A v \in ResultsOf(last.pre.ops, last.op) :
          Uses(last.cbLog[n].ops, v) = Uses(last.pre.ops, v)

\* C8 as claimed: whenever tryToFold returns success and a callback was
\* supplied, the callback has been called with op before op's uses were
\* replaced, for constant and non-constant operations alike.
C8_CallbackOnEverySuccess ==
    (FoldCall /\ last.ret = "success" /\ last.cb) =>
        (Len(last.cbLog) >= 1 /\ SawOriginal(1))

\* C9: for a non-constant operation the callback runs exactly once when
\* generic folding succeeds, never when it fails, and sees op in the graph
\* with every use of its results still in place.
C9_CallbackOnce ==
    GenericFoldCall =>
        /\ (last.ret = "success" /\ last.cb) =>
              (Len(last.cbLog) = 1 /\ SawOriginal(1))
        /\ (last.ret = "failure" \/ ~last.cb) => last.cbLog = <<>>

\* C9 witness: a full replacement with a callback, of an operation whose
\* result had a use.
C9_Witness ==
    /\ FullReplacement /\ last.cb
    /\ \E v \in ResultsOf(last.pre.ops, last.op) : Uses(last.pre.ops, v) # {}
    /\ Len(last.cbLog) = 1

DeadConstant == ConstantFoldCall /\ use_empty(last.pre.ops, last.op)

WithoutKey(u, k) == [j \in DOMAIN u \ {k} |-> u[j]]

\* C11: notifyRemoval(op) removes the entry of op's key when op is a
\* constant and that entry maps to op, and changes the map in no other case.
C11_NotifyRemovalFrame ==
    last.call = "notifyRemoval" =>
        IF last.pre.ops[last.op].isConst
        THEN LET k == KeyOf(last.pre.ops, last.op)
             IN IF Lookup(last.pre.uniq, k) = last.op
                THEN uniquedConstants = WithoutKey(last.pre.uniq, k)
                ELSE uniquedConstants = last.pre.uniq
        ELSE uniquedConstants = last.pre.uniq

\* C11 witness: notifyRemoval on a constant whose key maps to another
\* operation.
C11_Witness ==
    /\ last.call = "notifyRemoval"
    /\ OwnOp(last.pre.ops, last.op)
    /\ last.pre.ops[last.op].isConst
    /\ Lookup(last.pre.uniq, KeyOf(last.pre.ops, last.op))
          \notin {NullOp, last.op}

\* C12: a constant with a use whose key has no entry is registered under its
\* key, moved to position 0 of the entry block and kept with all its uses;
\* the call returns failure.
C12_FirstSighting ==
    FirstSighting =>
        LET k == KeyOf(last.pre.ops, last.op)
        IN /\ last.ret = "failure"
           /\ Lookup(uniquedConstants, k) = last.op
           /\ WithoutKey(uniquedConstants, k) = WithoutKey(last.pre.uniq, k)
           /\ Position(blocks, last.op) = <<1, 1>>
           /\ blocks = Hoisted(last.pre.blocks, last.op)
           /\ ops = last.pre.ops

\* C12 witness: the constant was in the other block before the call.
C12_Witness ==
    /\ FirstSighting
    /\ Position(last.pre.blocks, last.op)[1] = 2
    /\ Position(blocks, last.op) = <<1, 1>>

\* A constant with a use whose key maps to another operation.
Duplicate ==
    /\ ConstantFoldCall
    /\ ~use_empty(last.pre.ops, last.op)
    /\ Lookup(last.pre.uniq, KeyOf(last.pre.ops, last.op))
          \notin {NullOp, last.op}

AlreadyCanonical ==
    /\ ConstantFoldCall
    /\ ~use_empty(last.pre.ops, last.op)
    /\ Lookup(last.pre.uniq, KeyOf(last.pre.ops, last.op)) = last.op

\* C14: on the uniqued constant itself tryToFold returns failure and changes
\* nothing: the map, the block positions (no second hoist) and the operands
\* of every operation are as before, so a repeated call starts from the same
\* state and gives the same outcome.
C14_AlreadyCanonical ==
    AlreadyCanonical =>
        /\ last.ret = "failure"
        /\ ops = last.pre.ops
        /\ blocks = last.pre.blocks
        /\ uniquedConstants = last.pre.uniq

\* C14 witness: the uniqued constant is not at position 0 (another one was
\* hoisted above it) and stays there.
C14_Witness ==
    /\ AlreadyCanonical
    /\ Position(last.pre.blocks, last.op)[2] > 1
    /\ last.ret = "failure"

\* Two consecutive calls of tryToFold, the first on one and the second on
\* the other of two distinct constants with the same value and type.
TwoConstantCalls ==
    /\ last.call = "tryToFold" /\ last'.call = "tryToFold"
    /\ last.op # last'.op
    /\ OwnOp(last.pre.ops, last.op) /\ OwnOp(last.pre.ops, last'.op)
    /\ last.pre.ops[last.op].isConst
    /\ last.pre.ops[last'.op].status = "live"
    /\ last.pre.ops[last'.op].isConst
    /\ KeyOf(last.pre.ops, last.op) = KeyOf(last.pre.ops, last'.op)

\* After both calls: of the two only the first is live, every use of the
\* second holds the first's result, the first is at position 0.
FirstSurvives ==
    /\ ops'[last.op].status = "live"
    /\ ops'[last'.op].status # "live"
    /\ \A us \in Uses(last.pre.ops, Result(last'.op, 1)) :
          ops'[us[1]].operands[us[2]] = Result(last.op, 1)
    /\ Position(blocks', last.op) = <<1, 1>>

DeclinedWithConstantOnLeft == ConstantOnLeftOnly /\ ~last.hook.ok

\* C16 as claimed: when the hook declines, tryToFold returns failure and the
\* operand order after the call is the operand order before it.
C16_NoSwapVisible ==
    DeclinedWithConstantOnLeft =>
        /\ last.ret = "failure"
        /\ ops[last.op].operands = last.pre.ops[last.op].operands

\* C16 amended: when the hook declines, tryToFold returns failure and the
\* operation is untouched but for its operand order: the two operands are
\* exchanged, the constant is the second one.
C16_SwapOnDecline ==
    DeclinedWithConstantOnLeft =>
        /\ last.ret = "failure"
        /\ ops[last.op] =
              [last.pre.ops[last.op] EXCEPT !.operands = <<@[2], @[1]>>]
        /\ MatchConstant(ops, ops[last.op].operands[2]) # NullAttr
        /\ \A id \in OpIds \ {last.op} : ops[id] = last.pre.ops[id]
        /\ blocks = last.pre.blocks
        /\ uniquedConstants = last.pre.uniq

\* C16 witness: the hook declined and the former second operand is first.
C16_Witness ==
    /\ DeclinedWithConstantOnLeft
    /\ last.ret = "failure"
    /\ ops[last.op].operands[1] = last.pre.ops[last.op].operands[2]

\* The last call was create, the overload that fills a list of results.
CreateCall == last.call = "create"

\* The i-th replacement is what the fold hook answered: the value itself,
\* or the result of a live constant operation of the answered attribute and
\* of the type of the i-th declared result.
IsReplacement(v, i) ==
    IF last.hook.outs[i].isValue THEN v = last.hook.outs[i].val
    ELSE /\ v.def # NullOp
         /\ v.idx = 1
         /\ ops[v.def].status = "live"
         /\ ops[v.def].isConst
         /\ ops[v.def].value = last.hook.outs[i].attr
         /\ ops[v.def].resTypes = <<ops[last.op].resTypes[i]>>

\* C17: after create (results-list form), when the fold fully replaced the
\* built operation, results holds one replacement value per declared result
\* and the built operation is erased; when the fold failed, results holds
\* the results of the built operation, which stays in the graph.
C17_Create ==
    /\ (CreateCall /\ last.hook.ok /\ last.hook.outs # <<>>) =>
          /\ Len(last.results) = Len(ops[last.op].resTypes)
          /\ \A i \in DOMAIN last.results : IsReplacement(last.results[i], i)
          /\ ops[last.op].status = "erased"
          /\ ~InGraph(blocks, last.op)
    /\ (CreateCall /\ ~last.hook.ok) =>
          /\ last.results =
                [i \in DOMAIN ops[last.op].resTypes |-> Result(last.op, i)]
          /\ ops[last.op].status = "live"
          /\ InGraph(blocks, last.op)

\* C17 witness: a built operation was folded to a constant that had to be
\* created, and was erased.
C17_Witness ==
    /\ CreateCall /\ last.hook.ok /\ last.hook.outs # <<>>
    /\ ~last.hook.outs[1].isValue
    /\ last.created # {}
    /\ last.results[1].def \in last.created
    /\ last.pre.ops[last.op].status = "unborn"
    /\ ops[last.op].status = "erased"

\* C18: create for an operation kind without results returns the built
\* operation whatever the fold answered, and the operation is live and in
\* the graph after the call.
C18_CreateZeroResult ==
    last.call = "createZeroResult" =>
        /\ last.returned = last.op
        /\ last.pre.ops[last.op].status = "unborn"
        /\ ops[last.op].status = "live"
        /\ InGraph(blocks, last.op)
        /\ ops[last.op].resTypes = <<>>

\* C18 witness: the fold of the built operation succeeded in place.
C18_Witness ==
    /\ last.call = "createZeroResult"
    /\ last.hook.ok
    /\ last.returned = last.op
    /\ ops[last.op].status = "live"

\* A call on an operation of another function.
ForeignCall ==
    /\ last.call \in {"tryToFold", "notifyRemoval", "externalErase"}
    /\ ~OwnOp(last.pre.ops, last.op)

\* C19: tryToFold or notifyRemoval on an operation that does not belong to
\* the function of the folder stops at the assertion: the call does not
\* return success or failure, and the graph and the cache are as before the
\* call; neither the fold hook nor the callback was called.
C19_ForeignOperation ==
    ForeignCall =>
        /\ last.ret = "assert"
        /\ State = last.pre
        /\ ~last.hook.called
        /\ last.cbLog = <<>>
        /\ last.created = {}

\* C19 witness: tryToFold, with a callback, on a constant of another
\* function whose key has no entry.
C19_Witness ==
    /\ ForeignCall
    /\ last.call = "tryToFold"
    /\ last.cb
    /\ last.pre.ops[last.op].isConst
    /\ Lookup(last.pre.uniq, KeyOf(last.pre.ops, last.op)) = NullOp
    /\ last.ret = "assert"

\* C20: every entry of uniquedConstants maps to a live constant operation
\* without operands, with exactly one result, whose type is the type of the
\* key.
C20_CacheWellFormed ==
    \A k \in DOMAIN uniquedConstants :
        LET c == uniquedConstants[k]
        IN /\ c # NullOp
           /\ ops[c].status = "live"
           /\ ops[c].isConst
           /\ ops[c].operands = <<>>
           /\ ops[c].resTypes = <<k.type>>

\* C20 witness: the cache held constants of two types, one of them
\* materialized for a built operation; notifyRemoval dropped an entry and
\* an entry is left.
C20_Witness ==
    /\ built > 0
    /\ \E k1, k2 \in DOMAIN last.pre.uniq :
          /\ k1.type # k2.type
          /\ last.pre.uniq[k1] # NullOp
          /\ last.pre.uniq[k2] # NullOp
    /\ last.call \in {"notifyRemoval", "externalErase"}
    /\ uniquedConstants # last.pre.uniq
    /\ \E k \in DOMAIN uniquedConstants : uniquedConstants[k] # NullOp

\* Operation c stands before operation d in the entry block.
Before(c, d) ==
    /\ Position(blocks, c)[1] = 1
    /\ Position(blocks, d)[1] = 1
    /\ Position(blocks, c)[2] < Position(blocks, d)[2]

\* The latest call registered an operation.
JustRegistered ==
    /\ last.call = "tryToFold"
    /\ Registered(uniquedConstants) \ Registered(last.pre.uniq) # {}

\* C21: of any two operations uniquedConstants refers to, the one registered
\* later stands earlier in the entry block; directly after a tryToFold call
\* that registered operations, the one registered last is the first
\* operation of the entry block.
C21_HoistOrder ==
    /\ {registered[i] : i \in DOMAIN registered}
          = Registered(uniquedConstants)
    /\ \A i, j \in DOMAIN registered :
          i < j => Before(registered[j], registered[i])
    /\ JustRegistered =>
          Position(blocks, registered[Len(registered)]) = <<1, 1>>

\* C21 witness: a call registered two operations behind one registered by an
\* earlier call.
C21_Witness ==
    /\ JustRegistered
    /\ Len(registered) = 3
    /\ registered[1] \in Registered(last.pre.uniq)
    /\ registered[2] \notin Registered(last.pre.uniq)
    /\ registered[3] \notin Registered(last.pre.uniq)
    /\ Before(registered[3], registered[2])
    /\ Before(registered[2], registered[1])

\* C22: a tryToFold call erases no operation but the one it was given: every
\* other operation that was live is live and where it was a member of the
\* graph it still is, the producers of the operands included, and what the
\* call created is live.
C22_NoSweep ==
    FoldCall =>
        \A id \in OpIds \ {last.op} :
            /\ last.pre.ops[id].status = "live" => ops[id].status = "live"
            /\ InGraph(last.pre.blocks, id) => InGraph(blocks, id)
            /\ last.pre.ops[id].status = "unborn" => ops[id].status # "erased"

\* C22 witness: the operation was replaced and erased, and the producer of
\* one of its operands is left without uses.
C22_Witness ==
    /\ FullReplacement
    /\ ops[last.op].status = "erased"
    /\ \E i \in DOMAIN last.pre.ops[last.op].operands :
          LET d == last.pre.ops[last.op].operands[i].def
          IN /\ d # NullOp
             /\ ~use_empty(last.pre.ops, d)
             /\ use_empty(ops, d)
             /\ ops[d].status = "live"
             /\ InGraph(blocks, d)

\* The keys of the computed constants among the outcomes of the latest fold.
OutcomeKeys == {OutcomeKey(i) : i \in AttrOutcomes}

\* The operations the latest call created for key k.
CreatedFor(k) ==
    {c \in last.created :
        ops[c].isConst /\ ops[c].operands = <<>>
        /\ ops[c].value = k.value /\ ops[c].resTypes = <<k.type>>}

\* C23: in a generic fold that answers outcomes, an outcome that is a value
\* is the replacement as it stands; an outcome that is a computed constant
\* whose key had an entry is replaced by the result of the operation of that
\* entry and nothing is created for it; for a key without entry exactly one
\* constant operation of that value and type is created, registered under
\* the key and put at the front of the entry block (the operations created
\* by the call are the first operations of the entry block).  The map
\* changes at these keys only, and nothing is created but these constants.
C23_Materialization ==
    FullReplacement =>
        /\ \A i \in DOMAIN last.hook.outs :
              last.hook.outs[i].isValue =>
                  last.results[i] = last.hook.outs[i].val
        /\ \A i \in AttrOutcomes :
              LET k == OutcomeKey(i)
                  c == Lookup(last.pre.uniq, k)
              IN IF c # NullOp
                 THEN /\ last.results[i] = Result(c, 1)
                      /\ CreatedFor(k) = {}
                      /\ Lookup(uniquedConstants, k) = c
                 ELSE /\ Cardinality(CreatedFor(k)) = 1
                      /\ Lookup(uniquedConstants, k) \in CreatedFor(k)
                      /\ last.results[i] =
                            Result(Lookup(uniquedConstants, k), 1)
        /\ last.created = UNION {CreatedFor(k) : k \in OutcomeKeys}
        /\ \A c \in last.created : last.pre.ops[c].status = "unborn"
        /\ {id \in OpIds : last.pre.ops[id].status = "unborn"
                            /\ ops[id].status # "unborn"} = last.created
        /\ {blocks[1][j] : j \in 1..Cardinality(last.created)} = last.created
        /\ \A k \in Keys \ OutcomeKeys :
              Lookup(uniquedConstants, k) = Lookup(last.pre.uniq, k)

\* C23 witness: of two computed constants one was found in the map and one
\* was created.
C23_Witness ==
    /\ FullReplacement
    /\ AttrOutcomes = {1, 2}
    /\ Lookup(last.pre.uniq, OutcomeKey(1)) # NullOp
    /\ last.results[1].def = Lookup(last.pre.uniq, OutcomeKey(1))
    /\ Lookup(last.pre.uniq, OutcomeKey(2)) = NullOp
    /\ last.created = {last.results[2].def}
    /\ Position(blocks, last.results[2].def) = <<1, 1>>

\* C24: when the operation has not exactly two operands, or is not
\* commutative, or its first operand is not constant, or both operands are
\* constant, the fold hook is given the operands in the order they had
\* before the call, with the constant-or-absent array in that order, and an
\* operation that outlives the call has its operands in that order.
C24_NoSwapOtherwise ==
    (GenericFoldCall /\ ~ConstantOnLeftOnly) =>
        /\ last.hook.called
        /\ last.hook.operands = last.pre.ops[last.op].operands
        /\ last.hook.consts =
              [i \in DOMAIN last.pre.ops[last.op].operands |->
                 MatchConstant(last.pre.ops,
                               last.pre.ops[last.op].operands[i])]
        /\ ops[last.op].status = "live" =>
              ops[last.op].operands = last.pre.ops[last.op].operands

\* C24 witness: an operation that is not commutative, with a constant as
\* first operand only, kept its operand order through a failed fold.
C24_Witness ==
    /\ GenericFoldCall
    /\ ~last.pre.ops[last.op].commutative
    /\ Len(last.pre.ops[last.op].operands) = 2
    /\ last.hook.consts[1] # NullAttr
    /\ last.hook.consts[2] = NullAttr
    /\ last.ret = "failure"
    /\ ops[last.op].operands = last.pre.ops[last.op].operands

\* The pair (value, result type) of a constant operation.
ValueAndType(o, op) == [value |-> o[op].value, type |-> o[op].resTypes[1]]

\* tryToFold was called on a constant with uses.
UsedConstantCall == ConstantFoldCall /\ ~use_empty(last.pre.ops, last.op)

\* The registered operations of the value and type of the constant folded.
Twins ==
    {c \in Registered(last.pre.uniq) \ {last.op} :
        ValueAndType(last.pre.ops, c) = ValueAndType(last.pre.ops, last.op)}

\* C25: tryToFold erases a constant with uses in favour of a registered one
\* only when value and result type are both equal.  Without such a twin the
\* constant stays, is the operation of the entry of its own (value, type),
\* and every other entry, those of equal value and another type included,
\* is as before.
C25_KeyIsValueAndType ==
    /\ (UsedConstantCall /\ last.ret = "success") =>
          /\ Twins # {}
          /\ \A us \in Uses(last.pre.ops, Result(last.op, 1)) :
                ops[us[1]].operands[us[2]].def \in Twins
    /\ (UsedConstantCall /\ Twins = {}) =>
          /\ last.ret = "failure"
          /\ ops[last.op].status = "live"
          /\ Lookup(uniquedConstants, ValueAndType(ops, last.op)) = last.op
          /\ \A k \in Keys \ {ValueAndType(ops, last.op)} :
                Lookup(uniquedConstants, k) = Lookup(last.pre.uniq, k)
          /\ \A c \in Registered(last.pre.uniq) : ops[c].status = "live"

\* C25 witness: a constant was registered while a constant of the same
\* value and another type was registered already; both are registered now.
C25_Witness ==
    /\ UsedConstantCall
    /\ Twins = {}
    /\ last.op \notin Registered(last.pre.uniq)
    /\ \E c \in Registered(uniquedConstants) \ {last.op} :
          /\ c \in Registered(last.pre.uniq)
          /\ ops[c].value = ops[last.op].value
          /\ ops[c].resTypes # ops[last.op].resTypes
          /\ ~use_empty(ops, c)

DeadOutcome == ConstantFoldCall /\ use_empty(last.pre.ops, last.op)

NewlyCanonicalOutcome == UsedConstantCall /\ Twins = {}
                            /\ last.op \notin Registered(last.pre.uniq)

AlreadyCanonicalOutcome == UsedConstantCall
                              /\ last.op \in Registered(last.pre.uniq)

ReplacedOutcome == UsedConstantCall /\ Twins # {}
                      /\ last.op \notin Registered(last.pre.uniq)

C27_GivenConstantKept ==
    ReplacedOutcome =>
        /\ ops[last.op].status = "live"
        /\ InGraph(blocks, last.op)

\* C28 as claimed: after create of an operation with at least one declared
\* result, whatever the fold answered, results holds one value per declared
\* result, each the block argument or a result of an operation that is live
\* and in the graph.
C28_CreateResults ==
    (CreateCall /\ ops[last.op].resTypes # <<>>) =>
        /\ Len(last.results) = Len(ops[last.op].resTypes)
        /\ \A i \in DOMAIN last.results :
              \/ last.results[i] = BlockArg
              \/ /\ ops[last.results[i].def].status = "live"
                 /\ InGraph(blocks, last.results[i].def)

\* C29: no operand of a live operation is a result of an erased operation.
C29_UseDefIntegrity ==
    \A u \in LiveOps(ops) :
        \A i \in DOMAIN ops[u].operands :
            ops[u].operands[i] # BlockArg =>
                ops[ops[u].operands[i].def].status = "live"

\* C29 witness: tryToFold erased a constant that had a use, and the user
\* now refers to a constant that an earlier create call had materialized.
C29_Witness ==
    /\ built > 0
    /\ FoldCall
    /\ ops[last.op].status = "erased"
    /\ \E us \in Uses(last.pre.ops, Result(last.op, 1)) :
          /\ ops[us[1]].status = "live"
          /\ ops[us[1]].operands[us[2]].def > Len(ProgramC.ops)
          /\ ops[ops[us[1]].operands[us[2]].def].status = "live"
    /\ \E e \in OpIds \ {last.op} : ops[e].status = "erased"

\* C30: every constant a generic fold puts in the place of result i, found
\* in the map or created, is a constant operation of the answered value
\* whose one result has the type of result i.
C30_TypePreserved ==
    FullReplacement =>
        \A i \in AttrOutcomes :
            LET c == last.results[i].def
            IN /\ c # NullOp
               /\ last.results[i].idx = 1
               /\ ops[c].isConst
               /\ ops[c].value = last.hook.outs[i].attr
               /\ ops[c].resTypes = <<last.pre.ops[last.op].resTypes[i]>>

\* C30 witness: the constant was found in the map, which also held a
\* constant of the same value and another type.
C30_Witness ==
    /\ FullReplacement
    /\ \E i \in AttrOutcomes :
          /\ last.results[i].def \in Registered(last.pre.uniq)
          /\ \E d \in Registered(last.pre.uniq) :
                /\ ops[d].value = ops[last.results[i].def].value
                /\ ops[d].resTypes # ops[last.results[i].def].resTypes
    /\ \E j \in AttrOutcomes : last.results[j].def \in last.created

\* C31: every entry of uniquedConstants refers to an operation, not to
\* null; its key is the operation's own value and result type; no operation
\* is the entry of two keys.
C31_CacheConsistent ==
    /\ \A k \in DOMAIN uniquedConstants :
          /\ uniquedConstants[k] # NullOp
          /\ ops[uniquedConstants[k]].isConst
          /\ ValueAndType(ops, uniquedConstants[k]) = k
    /\ \A k1, k2 \in DOMAIN uniquedConstants :
          uniquedConstants[k1] = uniquedConstants[k2] => k1 = k2

\* C31 witness: a generic fold registered a constant it created next to an
\* entry of an earlier call, after another entry had been removed.
C31_Witness ==
    /\ FullReplacement
    /\ \E k1, k2 \in DOMAIN uniquedConstants :
          /\ uniquedConstants[k1] \in last.created
          /\ uniquedConstants[k2] \in Registered(last.pre.uniq)
          /\ k1 # k2
    /\ \E e \in OpIds :
          /\ ops[e].status = "erased"
          /\ ops[e].isConst

\* C32: notifyRemoval leaves the graph as it is: no operation is erased,
\* moved or given other operands, the operation it is called on included.
C32_NotifyRemovalKeepsGraph ==
    last.call = "notifyRemoval" =>
        /\ ops = last.pre.ops
        /\ blocks = last.pre.blocks

\* C32 witness: notifyRemoval removed the entry of a registered constant
\* that has uses; the constant is live and where it was.
C32_Witness ==
    /\ last.call = "notifyRemoval"
    /\ last.op \in Registered(last.pre.uniq)
    /\ last.op \notin Registered(uniquedConstants)
    /\ ~use_empty(ops, last.op)
    /\ ops[last.op].status = "live"
    /\ Position(blocks, last.op) = Position(last.pre.blocks, last.op)

====
